---- MODULE Spec2Model ----
(***************************************************************************)
(* Price-lookup pipeline of the import service (backend/app/tasks.py and   *)
(* backend/app/main.py): the API request that creates an import job, the   *)
(* Celery task parse_import_file that persists the products and enqueues   *)
(* one lookup task per product, the Celery task fetch_allegro_data that    *)
(* resolves a product from the cache or from the lookup client, and        *)
(* finalize_job_if_complete, which every lookup task calls at its end.     *)
(*                                                                         *)
(* The store is a relational database read at READ COMMITTED: every step   *)
(* of the model is one committed transaction (or one statement that reads  *)
(* committed data), so tasks interleave between commits.  Both tasks are   *)
(* declared acks_late: a worker that dies before acknowledging its message *)
(* has the message delivered again, and the task body is run again from    *)
(* the top.  A task that ends by raising is acknowledged like one that     *)
(* returns (no code path calls self.retry).  Executions of one message do  *)
(* not overlap: a redelivery follows the death of the worker that held it. *)
(*                                                                         *)
(* Failures of the store are modelled where the lookup task handles them:  *)
(* at the commit of the lookup result, in the calls of                     *)
(* finalize_job_if_complete, and in the session the except block opens.    *)
(* Failures of the broker are modelled at both delay() calls.              *)
(*                                                                         *)
(* The job's notes are assigned as an attribute of the ORM object; the     *)
(* model keeps what the store holds of them.                               *)
(*                                                                         *)
(* The second part models one call of the lookup client of                 *)
(* backend/app/services/allegro_scraper.py (fetch_allegro_data): its retry *)
(* loop over browser attempts, under the specification ScraperSpec.  The   *)
(* lookup task of tasks.py does not call it (it runs fetch_with_antibot),  *)
(* so the two parts share no state.                                        *)
(*                                                                         *)
(* ReadySpec models the selection of the Selenium endpoint by              *)
(* _ensure_selenium_ready and _wait_for_candidate_ready of the same file,  *)
(* and ReportSpec the request list_products of main.py on the rows it      *)
(* reads.  Each specification starts with the other parts idle and leaves  *)
(* them unchanged.                                                         *)
(***************************************************************************)
EXTENDS Integers, Sequences, FiniteSets, TLC

\* ------------------------------------------------------------------ bounds
MaxProducts == 2    \* product_inputs rows the job may come to own
MaxFailures == 1    \* worker deaths (each causes one redelivery) and store failures
MaxTicks == 1       \* days that pass while the job runs
MaxCandidates == 2  \* entries of SELENIUM_URL_CANDIDATES
MaxTimeout == 2     \* seconds of the timeout argument of the readiness probe
MaxChain == 2       \* exceptions chained behind a failed status request
MaxCalls == 2       \* further calls of _ensure_selenium_ready in one process
MaxPrice == 4       \* largest purchase price and lowest price of a listed product

\* -------------------------------------------------------- program constants
CACHE_TTL_DAYS == 30

EANS == {"e1", "e2"}
NoRow == [absent |-> TRUE]
\* None in a nullable column (lowest_price, sold_count)
NoneVal == -1

ACTIVE_STATUSES == {"pending", "queued", "processing"}
TERMINAL_STATUSES == {"done", "not_found", "error"}
JOB_TERMINAL == {"done", "error"}
INVALID_CACHE_SOURCES ==
    {"failed", "error", "ban_detected", "captcha_detected", "antibot_error"}

\* Mapped columns of ImportJob; an attribute outside them is not persisted.
IMPORT_JOB_COLUMNS ==
    {"id", "filename", "meta", "multiplier", "created_at", "status"}
\* getattr(job, 'notes', None) on a row without such a column
NoNote == "None"

\* The clock at Init; cache rows left by earlier jobs are older than it.
StartDay == CACHE_TTL_DAYS

VARIABLES
    job,         \* import_jobs.status of the job
    products,    \* product_inputs rows of the job, by id: [ean, status]
    cache,       \* allegro_cache: ean -> row or NoRow (ean is UNIQUE)
    entries,     \* allegro_cache: ean -> number of rows with that ean
    tasks,       \* per product: the fetch_allegro_data message / execution
    parse,       \* the parse_import_file message / execution
    api,         \* position of the start_import request
    file,        \* normalized EANs of the file's valid rows
    clock,       \* utcnow(), in days
    failures,    \* worker deaths and store failures so far
    lastFailed,  \* history: ean -> the last committed real lookup reported an error
    jobNotes,    \* what a new session reads as the job's notes
    scrape,      \* lookup client: position of the call in its retry loop
    attempt,     \* lookup client: the loop counter
    page_source, \* lookup client: what the page of this attempt contains
    last_error,  \* lookup client: kind of the last exception kept
    driver,      \* lookup client: the attempt holds a browser session
    sessions,    \* lookup client: browser sessions opened and not quit
    sleeps,      \* lookup client: the backoff delays slept so far
    alerts,      \* lookup client: events handed to send_scraper_alert
    response,    \* lookup client: the dict the call returned
    active,      \* _ACTIVE_SELENIUM_URL: 0 for None, else the candidate's position
    ensure,      \* the call of _ensure_selenium_ready in progress
    grid,        \* SELENIUM_URL_CANDIDATES (their number) and the timeout argument
    undelivered, \* lookup client: alerts the sink could not deliver
    rowReads,    \* lookup task: queries for its product row that found none
    listing      \* list_products: the rows it reads and its response

pipeline == <<job, products, cache, entries, tasks, parse, api, file, clock, failures,
              lastFailed, jobNotes>>
scraper == <<scrape, attempt, page_source, last_error, driver, sessions, sleeps,
             alerts, undelivered, response>>
selenium == <<active, ensure, grid>>
vars == <<pipeline, scraper, selenium, listing, rowReads>>
\* What the steps of each part leave alone.
nonPipeline == <<scraper, selenium, listing, rowReads>>
nonScraper == <<pipeline, selenium, listing, rowReads>>
nonSelenium == <<pipeline, scraper, listing, rowReads>>
nonListing == <<pipeline, scraper, selenium, rowReads>>
nonStore == <<scraper, selenium, listing>>

\* ------------------------------------------------------- lookup client
(* fetch_with_antibot never raises; it returns one of these dicts.         *)
ResFound ==
    [lowest_price |-> 20, sold_count |-> 3, source |-> "antibot_exe",
     not_found |-> FALSE, error |-> FALSE]
ResNotFound ==
    [lowest_price |-> NoneVal, sold_count |-> NoneVal, source |-> "antibot_exe",
     not_found |-> TRUE, error |-> FALSE]
ResNoDetail ==
    [lowest_price |-> NoneVal, sold_count |-> NoneVal, source |-> "antibot_exe",
     not_found |-> TRUE, error |-> TRUE]
ResSubprocessError ==
    [lowest_price |-> NoneVal, sold_count |-> NoneVal, source |-> "antibot_error",
     not_found |-> TRUE, error |-> TRUE]

fetch_with_antibot == {ResFound, ResNotFound, ResNoDetail, ResSubprocessError}

\* new_status of fetch_allegro_data: an error wins over not_found.
NewStatus(result) ==
    IF result.error THEN "error"
    ELSE IF result.not_found THEN "not_found"
    ELSE "done"

\* The allegro_cache row written from a lookup result at time now.
CacheRow(result, now) ==
    [lowest_price |-> result.lowest_price, sold_count |-> result.sold_count,
     source |-> result.source, fetched_at |-> now,
     not_found |-> result.not_found]

\* ------------------------------------------------------------- cache read
\* Variant: the entry is still taken when its age equals the TTL.
CacheFreshInclusive(row, now) == row.fetched_at >= now - CACHE_TTL_DAYS

\* cache.fetched_at > ttl_limit, with ttl_limit = utcnow() - CACHE_TTL_DAYS
CacheFresh(row, now) == row.fetched_at > now - CACHE_TTL_DAYS

CacheSourceValid(row) == row.source \notin INVALID_CACHE_SOURCES

CacheUsable(row, now) ==
    /\ row # NoRow
    /\ CacheFresh(row, now)
    /\ CacheSourceValid(row)

\* Variant: a cached row resolves the product as done whatever its not_found flag.
CachedStatusIgnoresNotFound(row) == "done"

CachedStatus(row) == IF row.not_found THEN "not_found" ELSE "done"

\* ------------------------------------------------------------ finalization
Ids == 1..Len(products)
CountStatus(S) == Cardinality({p \in Ids : products[p].status \in S})

\* Variant: only products being processed count as remaining.
RemainingProcessingOnly == CountStatus({"processing"})

Remaining == CountStatus(ACTIVE_STATUSES)

FinalStatus ==
    LET total_products == Len(products)
        error_count == CountStatus({"error"})
    IN  IF total_products = 0 THEN "error"
        ELSE IF error_count # 0 /\ error_count = total_products THEN "error"
        ELSE "done"

\* job.notes as finalize_job_if_complete assigns it (the texts by their kind).
FinalNotes ==
    LET total_products == Len(products)
        error_count == CountStatus({"error"})
        not_found_count == CountStatus({"not_found"})
    IN  IF total_products = 0 THEN "no_products"
        ELSE IF error_count # 0 /\ error_count = total_products THEN "all_error"
        ELSE IF error_count # 0 THEN "with_errors"
        ELSE IF not_found_count # 0 /\ not_found_count = total_products THEN "none_found"
        ELSE IF not_found_count # 0 THEN "some_not_found"
        ELSE NoNote

(* job.notes = message followed by a commit: the unit of work writes the    *)
(* mapped columns of the object; the value of any other attribute stays on *)
(* the Python object and is gone with it.                                  *)
StoreNotes(message) ==
    IF "notes" \in IMPORT_JOB_COLUMNS THEN message ELSE jobNotes

\* ---------------------------------------------------------------- initial
NewTask == [pc |-> "none", sawCache |-> FALSE, path |-> "none", calls |-> 0,
            rerun |-> FALSE]

\* A task execution that has ended, by returning or by raising.
Ended(exit, calls) ==
    [NewTask EXCEPT !.pc = "ended", !.path = exit, !.calls = calls]

\* The uploaded files: the normalized EANs of the rows that pass the row filter.
Files == {<<>>, <<"e1">>, <<"e1", "e1">>, <<"e1", "e2">>}

\* Rows that earlier jobs may have left in the cache (all valid for reuse).
OldRows == {NoRow,
            CacheRow(ResFound, StartDay - CACHE_TTL_DAYS + 1),
            CacheRow(ResNotFound, StartDay - CACHE_TTL_DAYS + 1)}

\* No call of the lookup client is in progress.
NoPage == [absent |-> TRUE]
NoResponse == [absent |-> TRUE]

ScraperIdle ==
    /\ scrape = "next"
    /\ attempt = 0
    /\ page_source = NoPage
    /\ last_error = "None"
    /\ driver = FALSE
    /\ sessions = 0
    /\ sleeps = <<>>
    /\ alerts = <<>>
    /\ response = NoResponse
    /\ undelivered = <<>>

(* No call of _ensure_selenium_ready is in progress and no endpoint has     *)
(* been selected.                                                          *)
\* last_error = None in _wait_for_candidate_ready
NoError == [kind |-> "None", connection |-> FALSE, chain |-> <<>>]
\* Nothing returned or raised yet.
NoResult == [url |-> 0, named |-> {}, last_error |-> "None"]

NewEnsure(calls) ==
    [pc |-> "idle", candidate |-> 0, elapsed |-> 0, requests |-> 0,
     status |-> "None", wait_error |-> NoError, last_error |-> "None",
     probed |-> <<>>, result |-> NoResult, calls |-> calls]

SeleniumIdle ==
    /\ active = 0
    /\ ensure = NewEnsure(0)
    /\ grid = [n |-> 1, timeout |-> 1]

\* list_products has not been called.
NoListing ==
    [pc |-> "idle", job_found |-> FALSE, rows |-> 0, status |-> "pending",
     purchase_price |-> 0, lowest_price |-> NoneVal, multiplier |-> NoneVal,
     error |-> "None", response |-> <<>>]

ListingIdle == listing = NoListing

Init ==
    /\ rowReads = 0
    /\ ScraperIdle
    /\ SeleniumIdle
    /\ ListingIdle
    /\ job = "pending"
    /\ products = <<>>
    /\ \E row \in OldRows : cache = [e \in EANS |-> IF e = "e1" THEN row ELSE NoRow]
    /\ entries = [e \in EANS |-> IF cache[e] = NoRow THEN 0 ELSE 1]
    /\ tasks = <<>>
    /\ parse = [pc |-> "none", base |-> 0, i |-> 0]
    /\ api = "enqueue"
    /\ file \in Files
    /\ clock = StartDay
    /\ failures = 0
    /\ lastFailed = [e \in EANS |-> FALSE]
    /\ jobNotes = NoNote

\* ------------------------------------------------------------ start_import
ApiEnqueue ==
    /\ api = "enqueue"
    /\ parse' = [parse EXCEPT !.pc = "queued"]
    /\ api' = "mark"
    /\ UNCHANGED nonPipeline
    /\ UNCHANGED <<job, products, cache, entries, tasks, file, clock, failures, lastFailed, jobNotes>>

ApiEnqueueFail ==
    /\ api = "enqueue"
    /\ job' = "error"
    /\ api' = "done"
    /\ UNCHANGED nonPipeline
    /\ UNCHANGED <<products, cache, entries, tasks, parse, file, clock, failures, lastFailed>>
    /\ jobNotes' = StoreNotes("queueing_failed")

\* Variant: the update is not filtered by the job's status.
MarkQueuedAlways(status) == "queued"

(* UPDATE import_jobs SET status = 'queued' WHERE id = :id AND status IN    *)
(* ('pending', 'queued'): one statement, evaluated on the committed row.   *)
MarkQueued(status) == IF status \in {"pending", "queued"} THEN "queued" ELSE status

\* rows_updated: commit, and the request is done; else rollback, the row is kept.
ApiMarkQueued ==
    /\ api = "mark"
    /\ job' = MarkQueued(job)
    /\ api' = IF job \in {"pending", "queued"} THEN "done" ELSE "kept"
    /\ UNCHANGED nonPipeline
    /\ UNCHANGED <<products, cache, entries, tasks, parse, file, clock, failures, lastFailed, jobNotes>>

\* -------------------------------------------------------- parse_import_file
ParseStart ==
    /\ parse.pc = "queued"
    /\ job' = "processing"
    /\ parse' = [parse EXCEPT !.pc = "rows"]
    /\ UNCHANGED nonPipeline
    /\ UNCHANGED <<products, cache, entries, tasks, api, file, clock, failures, lastFailed>>
    /\ jobNotes' = StoreNotes(NoNote)

\* No valid row (or no usable columns): ValueError, the handler marks the job.
ParseNoRows ==
    /\ parse.pc = "rows"
    /\ file = <<>>
    /\ job' = "error"
    /\ parse' = [parse EXCEPT !.pc = "ended"]
    /\ UNCHANGED nonPipeline
    /\ UNCHANGED <<products, cache, entries, tasks, api, file, clock, failures, lastFailed>>
    /\ jobNotes' = StoreNotes("no_valid_rows")

\* The rows are added as pending and set to queued in the same transaction.
ParseCommitProducts ==
    /\ parse.pc = "rows"
    /\ file # <<>>
    /\ products' = products \o [k \in 1..Len(file) |->
                                   [ean |-> file[k], status |-> "queued"]]
    /\ tasks' = tasks \o [k \in 1..Len(file) |-> NewTask]
    /\ parse' = [pc |-> "enqueue", base |-> Len(products), i |-> 1]
    /\ UNCHANGED nonPipeline
    /\ UNCHANGED <<job, cache, entries, api, file, clock, failures, lastFailed, jobNotes>>

\* Variant: every payload carries the id of the execution's first product.
PayloadIdFirst(k) == parse.base + 1

\* task_payloads[k][0]: the id the flush gave to the k-th product of this execution
PayloadId(k) == parse.base + k

ParseEnqueueOne ==
    /\ parse.pc = "enqueue"
    /\ tasks' = [tasks EXCEPT ![PayloadId(parse.i)].pc = "queued"]
    /\ parse' = IF parse.i = Len(file)
                THEN [parse EXCEPT !.pc = "ended"]
                ELSE [parse EXCEPT !.i = parse.i + 1]
    /\ UNCHANGED nonPipeline
    /\ UNCHANGED <<job, products, cache, entries, api, file, clock, failures, lastFailed, jobNotes>>

\* fetch_allegro_data.delay raises: the job is marked error and the task raises.
ParseEnqueueFail ==
    /\ parse.pc = "enqueue"
    /\ job' = "error"
    /\ parse' = [parse EXCEPT !.pc = "ended"]
    /\ UNCHANGED nonPipeline
    /\ UNCHANGED <<products, cache, entries, tasks, api, file, clock, failures, lastFailed>>
    /\ jobNotes' = StoreNotes("broker_error")

(* The worker dies before the acknowledgement: the message is delivered    *)
(* again.  A redelivery is modelled only where the rows the second         *)
(* execution adds fit MaxProducts.                                         *)
ParseCrash ==
    /\ parse.pc \in {"rows", "enqueue", "ended"}
    /\ Len(products) + Len(file) <= MaxProducts
    /\ failures < MaxFailures
    /\ failures' = failures + 1
    /\ parse' = [parse EXCEPT !.pc = "queued"]
    /\ UNCHANGED nonPipeline
    /\ UNCHANGED <<job, products, cache, entries, tasks, api, file, clock, lastFailed, jobNotes>>

\* -------------------------------------------------------- fetch_allegro_data
Ean(p) == products[p].ean
\* Variant: the update is not filtered by the product's id.
SetStatusOfAll(p, st) == [q \in DOMAIN products |-> [products[q] EXCEPT !.status = st]]

\* The row with id = product_input_id is the only one the task updates.
SetStatus(p, st) == [products EXCEPT ![p].status = st]

(* First statements of the task, up to its first commit: the product row   *)
(* and the cache row are read; a usable row resolves the product (commit   *)
(* at line 460), anything else marks it processing (commit at line 466).   *)
(* The product's current status is not read.                               *)
FetchCacheHit(p) ==
    /\ tasks[p].pc = "queued"
    /\ CacheUsable(cache[Ean(p)], clock)
    /\ products' = SetStatus(p, CachedStatus(cache[Ean(p)]))
    /\ tasks' = [tasks EXCEPT ![p] =
                    [pc |-> "fin", sawCache |-> TRUE, path |-> "hit", calls |-> 0,
                     rerun |-> products[p].status \in TERMINAL_STATUSES]]
    /\ UNCHANGED nonPipeline
    /\ UNCHANGED <<job, cache, entries, parse, api, file, clock, failures, lastFailed, jobNotes>>

FetchCacheMiss(p) ==
    /\ tasks[p].pc = "queued"
    /\ ~CacheUsable(cache[Ean(p)], clock)
    /\ products' = SetStatus(p, "processing")
    /\ tasks' = [tasks EXCEPT ![p] =
                    [pc |-> "lookup", sawCache |-> cache[Ean(p)] # NoRow,
                     path |-> "miss", calls |-> 0,
                     rerun |-> products[p].status \in TERMINAL_STATUSES]]
    /\ UNCHANGED nonPipeline
    /\ UNCHANGED <<job, cache, entries, parse, api, file, clock, failures, lastFailed, jobNotes>>

(* except block of the task: the session is rolled back (nothing of the    *)
(* failed transaction is kept) and a new session commits the product as    *)
(* error.  The failed commit changes nothing another task can read, so the *)
(* raise and the handler's commit are one step.                            *)
HandlerStatus(p) == "error"

(* The lookup client is called once and its result is committed together   *)
(* with the product's status (line 529).  A task that saw no cache row     *)
(* INSERTs one; when another task has inserted the row meanwhile the       *)
(* UNIQUE constraint on ean fails the commit.                              *)
InsertConflictUnchecked(p) == FALSE

InsertConflict(p) == ~tasks[p].sawCache /\ cache[Ean(p)] # NoRow

(* l.516-524: a task that saw no row adds one (INSERT), a task that saw    *)
(* one updates it in place.                                                *)
EntriesAfterWrite(p) ==
    IF tasks[p].sawCache THEN entries
    ELSE [entries EXCEPT ![Ean(p)] = @ + 1]

FetchLookupCommit(p) ==
    /\ tasks[p].pc = "lookup"
    /\ ~InsertConflict(p)
    /\ \E result \in fetch_with_antibot :
          /\ cache' = [cache EXCEPT ![Ean(p)] = CacheRow(result, clock)]
          /\ entries' = EntriesAfterWrite(p)
          /\ products' = SetStatus(p, NewStatus(result))
          /\ lastFailed' = [lastFailed EXCEPT ![Ean(p)] = result.error]
    /\ tasks' = [tasks EXCEPT ![p].pc = "fin", ![p].calls = @ + 1,
                               ![p].sawCache = FALSE]
    /\ UNCHANGED nonPipeline
    /\ UNCHANGED <<job, parse, api, file, clock, failures, jobNotes>>

FetchLookupConflict(p) ==
    /\ tasks[p].pc = "lookup"
    /\ InsertConflict(p)
    /\ products' = SetStatus(p, HandlerStatus(p))
    /\ tasks' = [tasks EXCEPT ![p].pc = "hfin", ![p].calls = @ + 1,
                               ![p].sawCache = FALSE]
    /\ UNCHANGED nonPipeline
    /\ UNCHANGED <<job, cache, entries, parse, api, file, clock, failures, lastFailed, jobNotes>>

\* The commit at line 529 fails in the store: nothing of the transaction is kept.
FetchLookupStoreFault(p) ==
    /\ tasks[p].pc = "lookup"
    /\ failures < MaxFailures
    /\ failures' = failures + 1
    /\ products' = SetStatus(p, HandlerStatus(p))
    /\ tasks' = [tasks EXCEPT ![p].pc = "hfin", ![p].calls = @ + 1,
                               ![p].sawCache = FALSE]
    /\ UNCHANGED nonPipeline
    /\ UNCHANGED <<job, cache, entries, parse, api, file, clock, lastFailed, jobNotes>>

(* finalize_job_if_complete, called in a session of its own: the count of  *)
(* active products, and when it is zero the counts and the job's update.  *)
(* exit is how the calling task ends after the call: the try block         *)
(* returns, the except block re-raises.                                    *)
FinalizeCount(p, from, write, exit) ==
    /\ tasks[p].pc = from
    /\ tasks' = [tasks EXCEPT ![p] =
                    IF Remaining # 0 THEN Ended(exit, @.calls) ELSE [@ EXCEPT !.pc = write]]
    /\ UNCHANGED nonPipeline
    /\ UNCHANGED <<job, products, cache, entries, parse, api, file, clock, failures, lastFailed, jobNotes>>

FinalizeWrite(p, write, exit) ==
    /\ tasks[p].pc = write
    /\ job' = FinalStatus
    /\ tasks' = [tasks EXCEPT ![p] = Ended(exit, @.calls)]
    /\ UNCHANGED nonPipeline
    /\ UNCHANGED <<products, cache, entries, parse, api, file, clock, failures, lastFailed>>
    /\ jobNotes' = StoreNotes(FinalNotes)

FetchFinalizeCount(p) == FinalizeCount(p, "fin", "finw", "returned")
FetchFinalizeWrite(p) == FinalizeWrite(p, "finw", "returned")

\* finalize raises inside the try block: the except block runs.
FetchFinalizeFault(p) ==
    /\ tasks[p].pc \in {"fin", "finw"}
    /\ failures < MaxFailures
    /\ failures' = failures + 1
    /\ products' = SetStatus(p, HandlerStatus(p))
    /\ tasks' = [tasks EXCEPT ![p].pc = "hfin"]
    /\ UNCHANGED nonPipeline
    /\ UNCHANGED <<job, cache, entries, parse, api, file, clock, lastFailed, jobNotes>>

HandlerFinalizeCount(p) == FinalizeCount(p, "hfin", "hfinw", "raised")
HandlerFinalizeWrite(p) == FinalizeWrite(p, "hfinw", "raised")

\* finalize raises inside the except block: the exception leaves the task.
HandlerFinalizeFault(p) ==
    /\ tasks[p].pc \in {"hfin", "hfinw"}
    /\ failures < MaxFailures
    /\ failures' = failures + 1
    /\ tasks' = [tasks EXCEPT ![p] = Ended("raised", @.calls)]
    /\ UNCHANGED nonPipeline
    /\ UNCHANGED <<job, products, cache, entries, parse, api, file, clock, lastFailed, jobNotes>>

(* The store is unavailable: a statement of the try block raises (the      *)
(* cache write after the lookup, or a finalize call) and the except        *)
(* block's own session raises as well, so nothing is written and the       *)
(* exception leaves the task.                                              *)
FetchRaiseUnhandled(p) ==
    /\ tasks[p].pc \in {"lookup", "fin", "finw"}
    /\ failures < MaxFailures
    /\ failures' = failures + 1
    /\ tasks' = [tasks EXCEPT ![p] =
                    Ended("raised", IF @.pc = "lookup" THEN @.calls + 1 ELSE @.calls)]
    /\ UNCHANGED nonPipeline
    /\ UNCHANGED <<job, products, cache, entries, parse, api, file, clock, lastFailed, jobNotes>>

RUNNING == {"lookup", "fin", "finw", "hfin", "hfinw", "ended"}

\* The worker dies before the acknowledgement: the message is delivered again.
FetchCrash(p) ==
    /\ tasks[p].pc \in RUNNING
    /\ failures < MaxFailures
    /\ failures' = failures + 1
    /\ tasks' = [tasks EXCEPT ![p] = [NewTask EXCEPT !.pc = "queued"]]
    /\ UNCHANGED nonPipeline
    /\ UNCHANGED <<job, products, cache, entries, parse, api, file, clock, lastFailed, jobNotes>>


\* A day passes.  Only a task about to read the clock can tell.
Tick ==
    /\ clock < StartDay + MaxTicks
    /\ \E p \in Ids : tasks[p].pc \in {"queued", "lookup"}
    /\ clock' = clock + 1
    /\ UNCHANGED nonPipeline
    /\ UNCHANGED <<job, products, cache, entries, tasks, parse, api, file, failures, lastFailed, jobNotes>>

Next ==
    \/ ApiEnqueue
    \/ ApiEnqueueFail
    \/ ApiMarkQueued
    \/ ParseStart
    \/ ParseNoRows
    \/ ParseCommitProducts
    \/ ParseEnqueueOne
    \/ ParseEnqueueFail
    \/ ParseCrash
    \/ \E p \in Ids : FetchCacheHit(p)
    \/ \E p \in Ids : FetchCacheMiss(p)
    \/ \E p \in Ids : FetchLookupCommit(p)
    \/ \E p \in Ids : FetchLookupConflict(p)
    \/ \E p \in Ids : FetchLookupStoreFault(p)
    \/ \E p \in Ids : FetchFinalizeCount(p)
    \/ \E p \in Ids : FetchFinalizeWrite(p)
    \/ \E p \in Ids : FetchFinalizeFault(p)
    \/ \E p \in Ids : HandlerFinalizeCount(p)
    \/ \E p \in Ids : HandlerFinalizeWrite(p)
    \/ \E p \in Ids : HandlerFinalizeFault(p)
    \/ \E p \in Ids : FetchRaiseUnhandled(p)
    \/ \E p \in Ids : FetchCrash(p)
    \/ Tick

Spec == Init /\ [][Next]_vars

\* ------------------------------------------- a lookup task without its row
(* The first statements of fetch_allegro_data (l.427-439) when the message *)
(* of a product arrives before the product's row can be read: the task     *)
(* queries for the row up to ROW_READS times.  In Spec the rows are        *)
(* committed before any message is sent, so the first query finds the row  *)
(* and the loop is part of the task's first step; MissingRowSpec starts    *)
(* with the message of product 1 delivered and no row committed, the row   *)
(* becoming visible at any time or never.  A task that finds the row takes *)
(* the steps of the pipeline from its first.                               *)
ROW_READS == 3

MoreReadsInclusive == rowReads <= ROW_READS

\* for _ in range(3)
MoreReads == rowReads < ROW_READS

MissingRowInit ==
    /\ ScraperIdle
    /\ SeleniumIdle
    /\ ListingIdle
    /\ rowReads = 0
    /\ job = "processing"
    /\ products = <<>>
    /\ \E row \in OldRows : cache = [e \in EANS |-> IF e = "e1" THEN row ELSE NoRow]
    /\ entries = [e \in EANS |-> IF cache[e] = NoRow THEN 0 ELSE 1]
    /\ tasks = <<[NewTask EXCEPT !.pc = "reading"]>>
    /\ parse = [pc |-> "ended", base |-> 0, i |-> 0]
    /\ api = "done"
    /\ file \in {<<"e1">>, <<"e2">>}
    /\ clock = StartDay
    /\ failures = 0
    /\ lastFailed = [e \in EANS |-> FALSE]
    /\ jobNotes = NoNote

\* The product's row becomes visible to the task's queries.
RowBecomesVisible ==
    /\ products = <<>>
    /\ products' = <<[ean |-> file[1], status |-> "queued"]>>
    /\ UNCHANGED <<job, cache, entries, tasks, parse, api, file, clock, failures,
                   lastFailed, jobNotes, rowReads>>
    /\ UNCHANGED nonStore

\* l.430-434: the query returns None; warning, sleep(0.5), next iteration
FetchReadMissing ==
    /\ tasks[1].pc = "reading"
    /\ MoreReads
    /\ products = <<>>
    /\ rowReads' = rowReads + 1
    /\ UNCHANGED pipeline
    /\ UNCHANGED nonStore

\* l.430-432: the query returns the row; break, the task goes on at l.441
FetchReadFound ==
    /\ tasks[1].pc = "reading"
    /\ MoreReads
    /\ products # <<>>
    /\ tasks' = [tasks EXCEPT ![1].pc = "queued"]
    /\ UNCHANGED <<job, products, cache, entries, parse, api, file, clock, failures,
                   lastFailed, jobNotes, rowReads>>
    /\ UNCHANGED nonStore

\* l.436-438: no row after the loop; the error is logged and the task returns
FetchRowAbsent ==
    /\ tasks[1].pc = "reading"
    /\ ~MoreReads
    /\ tasks' = [tasks EXCEPT ![1] = Ended("absent", 0)]
    /\ UNCHANGED <<job, products, cache, entries, parse, api, file, clock, failures,
                   lastFailed, jobNotes, rowReads>>
    /\ UNCHANGED nonStore

MissingRowNext ==
    \/ RowBecomesVisible
    \/ FetchReadMissing
    \/ FetchReadFound
    \/ FetchRowAbsent
    \/ \E p \in Ids : FetchCacheHit(p)
    \/ \E p \in Ids : FetchCacheMiss(p)
    \/ \E p \in Ids : FetchLookupCommit(p)
    \/ \E p \in Ids : FetchFinalizeCount(p)
    \/ \E p \in Ids : FetchFinalizeWrite(p)
    \/ Tick

MissingRowSpec == MissingRowInit /\ [][MissingRowNext]_vars

(* The same system with a store that does not fail.  Workers keep taking   *)
(* messages and a running task keeps executing: some enabled step of the   *)
(* API request or of a task is eventually taken.  Worker deaths (with      *)
(* redelivery), broker failures and the passing of time stay possible and  *)
(* are not forced.                                                         *)
Progress ==
    \/ ApiEnqueue
    \/ ApiMarkQueued
    \/ ParseStart
    \/ ParseNoRows
    \/ ParseCommitProducts
    \/ ParseEnqueueOne
    \/ \E p \in Ids : FetchCacheHit(p)
    \/ \E p \in Ids : FetchCacheMiss(p)
    \/ \E p \in Ids : FetchLookupCommit(p)
    \/ \E p \in Ids : FetchLookupConflict(p)
    \/ \E p \in Ids : FetchFinalizeCount(p)
    \/ \E p \in Ids : FetchFinalizeWrite(p)
    \/ \E p \in Ids : HandlerFinalizeCount(p)
    \/ \E p \in Ids : HandlerFinalizeWrite(p)

NextLive ==
    \/ Progress
    \/ ApiEnqueueFail
    \/ ParseEnqueueFail
    \/ ParseCrash
    \/ \E p \in Ids : FetchCrash(p)
    \/ Tick

LiveSpec == Init /\ [][NextLive]_vars /\ WF_vars(Progress)

\* ============================================== lookup client (allegro_scraper)
(* services/allegro_scraper.py, fetch_allegro_data: one call of the lookup *)
(* client for one identifier.  Each attempt opens a browser session, loads *)
(* the listing page, waits for it, classifies what it shows and either     *)
(* returns or goes on to the next attempt.  A page is modelled by what the *)
(* code tests on it.  send_scraper_alert records the event and returns.    *)
MAX_ATTEMPTS == 3
BASE_BACKOFF_SECONDS == 2

Pages ==
    [ban : BOOLEAN, captcha : BOOLEAN, no_results : BOOLEAN, offers : BOOLEAN,
     price : BOOLEAN]

\* The condition WebDriverWait polls for: a no-results text or an offer article.
WaitCondition(page) == page.no_results \/ page.offers

\* Variant: a captcha signature is not looked for.
ClassifyWithoutCaptcha(page) ==
    IF page.ban THEN "ban"
    ELSE IF page.no_results THEN "not_found"
    ELSE IF page.price THEN "found"
    ELSE "none"

\* Variant: a price is looked for before the no-results text.
ClassifyPriceFirst(page) ==
    IF page.ban THEN "ban"
    ELSE IF page.captcha THEN "captcha"
    ELSE IF page.price THEN "found"
    ELSE IF page.no_results THEN "not_found"
    ELSE "none"

\* The if-cascade over the loaded page, in the order of the code.
Classify(page) ==
    IF page.ban THEN "ban"
    ELSE IF page.captcha THEN "captcha"
    ELSE IF page.no_results THEN "not_found"
    ELSE IF page.price THEN "found"
    ELSE "none"

BanResponse ==
    [lowest_price |-> NoneVal, sold_count |-> NoneVal, source |-> "ban_detected",
     not_found |-> FALSE, error |-> FALSE, alert_sent |-> TRUE]
CaptchaResponse ==
    [lowest_price |-> NoneVal, sold_count |-> NoneVal, source |-> "captcha_detected",
     not_found |-> FALSE, error |-> FALSE, alert_sent |-> TRUE]
NoResultsResponse ==
    [lowest_price |-> NoneVal, sold_count |-> NoneVal, source |-> "scrape",
     not_found |-> TRUE, error |-> FALSE, alert_sent |-> FALSE]
FoundResponse ==
    [lowest_price |-> 20, sold_count |-> 3, source |-> "selenium_rotating",
     not_found |-> FALSE, error |-> FALSE, alert_sent |-> FALSE]

\* _failure_response: an alert is sent and an error text set when error is not None.
FailureResponse(error) ==
    [lowest_price |-> NoneVal, sold_count |-> NoneVal, source |-> "failed",
     not_found |-> FALSE, error |-> error # "None", alert_sent |-> error # "None"]
FailureAlerts(error) ==
    IF error # "None" THEN Append(alerts, "allegro_scrape_failed") ELSE alerts

SendScraperAlertRaisesOnFailure(delivered) == ~delivered

(* services/alerts.py, send_scraper_alert: whether the call raises when    *)
(* the notification could not be delivered.  The contract of the alerting  *)
(* sink is fire-and-forget: it never fails its caller.                     *)
SendScraperAlertRaises(delivered) == FALSE

\* One call of send_scraper_alert: alerts keeps the calls, undelivered the
\* notifications the sink could not deliver.
SendScraperAlert(kind, delivered) ==
    /\ alerts' = Append(alerts, kind)
    /\ undelivered' = IF delivered THEN undelivered ELSE Append(undelivered, kind)

(* return _failure_response(ean, error, ...) at l.841 and l.853, outside   *)
(* any try block that would catch an exception of the alert: it would      *)
(* leave fetch_allegro_data.                                               *)
ScrapeFailure(error) ==
    \E delivered \in BOOLEAN :
        /\ alerts' = FailureAlerts(error)
        /\ undelivered' = IF error # "None" /\ ~delivered
                          THEN Append(undelivered, "allegro_scrape_failed")
                          ELSE undelivered
        /\ IF error # "None" /\ SendScraperAlertRaises(delivered)
              THEN /\ scrape' = "raised"
                   /\ UNCHANGED response
              ELSE /\ response' = FailureResponse(error)
                   /\ scrape' = "returned"

\* len(USER_AGENTS): the pool the user agent of an attempt is taken from
USER_AGENT_COUNT == 6

\* agents_pool[(attempt - 1) % len(agents_pool)], as an index into the shuffled pool
UserAgentIndex(a) == (a - 1) % USER_AGENT_COUNT

\* Variant: the loop runs once more than MAX_ATTEMPTS.
MoreAttemptsInclusive == attempt <= MAX_ATTEMPTS

\* for attempt in range(1, MAX_ATTEMPTS + 1): another iteration follows
MoreAttempts == attempt < MAX_ATTEMPTS

PipelineIdle ==
    /\ rowReads = 0
    /\ job = "pending"
    /\ products = <<>>
    /\ cache = [e \in EANS |-> NoRow]
    /\ entries = [e \in EANS |-> 0]
    /\ tasks = <<>>
    /\ parse = [pc |-> "none", base |-> 0, i |-> 0]
    /\ api = "enqueue"
    /\ file = <<>>
    /\ clock = StartDay
    /\ failures = 0
    /\ lastFailed = [e \in EANS |-> FALSE]
    /\ jobNotes = NoNote

ScraperInit == PipelineIdle /\ ScraperIdle /\ SeleniumIdle /\ ListingIdle

\* The iteration starts: get_driver returns a session and the listing page loads.
\* finally: if driver: driver.quit()
Quit == IF driver THEN sessions - 1 ELSE sessions

ScrapeGetDriver ==
    /\ scrape = "next"
    /\ MoreAttempts
    /\ attempt' = attempt + 1
    /\ driver' = TRUE
    /\ sessions' = sessions + 1
    /\ page_source' \in Pages
    /\ scrape' = "wait"
    /\ UNCHANGED <<last_error, sleeps, alerts, undelivered, response>>
    /\ UNCHANGED nonScraper

\* Variant: SeleniumEndpointUnavailable is handled like any other exception.
ScrapeEndpointUnavailableRetried ==
    /\ scrape = "next"
    /\ MoreAttempts
    /\ attempt' = attempt + 1
    /\ last_error' = "SeleniumEndpointUnavailable"
    /\ scrape' = "backoff"
    /\ UNCHANGED <<page_source, driver, sessions, sleeps, alerts, undelivered, response>>
    /\ UNCHANGED nonScraper

\* get_driver raises SeleniumEndpointUnavailable: the call returns a failure.
ScrapeEndpointUnavailable ==
    /\ scrape = "next"
    /\ MoreAttempts
    /\ attempt' = attempt + 1
    /\ last_error' = "SeleniumEndpointUnavailable"
    /\ ScrapeFailure("SeleniumEndpointUnavailable")
    /\ UNCHANGED <<page_source, driver, sessions, sleeps>>
    /\ UNCHANGED nonScraper

(* get_driver raises anything else.  When the exception comes from the     *)
(* statements after the session was created (execute_script,               *)
(* set_page_load_timeout, l.543-544) the session exists on the grid, but   *)
(* the caller's driver is still None and its finally clause quits nothing. *)
ScrapeDriverError ==
    /\ scrape = "next"
    /\ MoreAttempts
    /\ attempt' = attempt + 1
    /\ last_error' \in {"TimeoutException", "Exception"}
    /\ \E opened \in BOOLEAN :
          sessions' = IF opened THEN sessions + 1 ELSE sessions
    /\ scrape' = "backoff"
    /\ UNCHANGED <<page_source, driver, sleeps, alerts, undelivered, response>>
    /\ UNCHANGED nonScraper

(* The wait for the listing times out: the error is kept, the session is   *)
(* quit and `continue` starts the next iteration (the backoff is skipped). *)
ScrapeWaitTimeout ==
    /\ scrape = "wait"
    /\ ~WaitCondition(page_source)
    /\ last_error' = "TimeoutException"
    /\ driver' = FALSE
    /\ sessions' = Quit
    /\ scrape' = "next"
    /\ UNCHANGED <<attempt, page_source, sleeps, alerts, undelivered, response>>
    /\ UNCHANGED nonScraper

ScrapeWaitDone ==
    /\ scrape = "wait"
    /\ WaitCondition(page_source)
    /\ scrape' = "classify"
    /\ UNCHANGED <<attempt, page_source, last_error, driver, sessions, sleeps, alerts, undelivered, response>>
    /\ UNCHANGED nonScraper

\* Any statement of the attempt raises: the except clauses keep the error.
ScrapeException ==
    /\ scrape \in {"wait", "classify"}
    /\ last_error' \in {"TimeoutException", "Exception"}
    /\ driver' = FALSE
    /\ sessions' = Quit
    /\ scrape' = "backoff"
    /\ UNCHANGED <<attempt, page_source, sleeps, alerts, undelivered, response>>
    /\ UNCHANGED nonScraper

\* A return statement inside the attempt: the finally clause quits the session.
ScrapeReturn(dict, events) ==
    /\ response' = dict
    /\ alerts' = alerts \o events
    /\ driver' = FALSE
    /\ sessions' = Quit
    /\ scrape' = "returned"
    /\ UNCHANGED <<attempt, page_source, last_error, sleeps, undelivered>>
    /\ UNCHANGED nonScraper

(* send_scraper_alert(kind, ...) followed by return dict, inside the try   *)
(* block of the attempt: an exception of the alert would be caught at      *)
(* l.842 like any other and the attempt would count as failed.             *)
ScrapeAlertReturn(dict, kind) ==
    \E delivered \in BOOLEAN :
        /\ SendScraperAlert(kind, delivered)
        /\ driver' = FALSE
        /\ sessions' = Quit
        /\ IF SendScraperAlertRaises(delivered)
              THEN /\ last_error' = "Exception"
                   /\ scrape' = "backoff"
                   /\ UNCHANGED response
              ELSE /\ response' = dict
                   /\ scrape' = "returned"
                   /\ UNCHANGED last_error
        /\ UNCHANGED <<attempt, page_source, sleeps>>
        /\ UNCHANGED nonScraper

ScrapeBan ==
    /\ scrape = "classify"
    /\ Classify(page_source) = "ban"
    /\ ScrapeAlertReturn(BanResponse, "allegro_ban_detected")

ScrapeCaptcha ==
    /\ scrape = "classify"
    /\ Classify(page_source) = "captcha"
    /\ ScrapeAlertReturn(CaptchaResponse, "allegro_captcha_detected")

ScrapeNoResults ==
    /\ scrape = "classify"
    /\ Classify(page_source) = "not_found"
    /\ ScrapeReturn(NoResultsResponse, <<>>)

ScrapeFound ==
    /\ scrape = "classify"
    /\ Classify(page_source) = "found"
    /\ ScrapeReturn(FoundResponse, <<>>)

ScrapePriceMissing ==
    /\ scrape = "classify"
    /\ Classify(page_source) = "none"
    /\ last_error' = "RuntimeError"
    /\ driver' = FALSE
    /\ sessions' = Quit
    /\ scrape' = "backoff"
    /\ UNCHANGED <<attempt, page_source, sleeps, alerts, undelivered, response>>
    /\ UNCHANGED nonScraper

\* if attempt != MAX_ATTEMPTS: time.sleep(BASE_BACKOFF_SECONDS * attempt)
ScrapeBackoff ==
    /\ scrape = "backoff"
    /\ sleeps' = IF attempt # MAX_ATTEMPTS
                 THEN Append(sleeps, BASE_BACKOFF_SECONDS * attempt)
                 ELSE sleeps
    /\ scrape' = "next"
    /\ UNCHANGED <<attempt, page_source, last_error, driver, sessions, alerts, undelivered, response>>
    /\ UNCHANGED nonScraper

\* The loop is exhausted: return _failure_response(ean, last_error, ...).
ScrapeExhausted ==
    /\ scrape = "next"
    /\ ~MoreAttempts
    /\ ScrapeFailure(last_error)
    /\ UNCHANGED <<attempt, page_source, last_error, driver, sessions, sleeps>>
    /\ UNCHANGED nonScraper

ScraperNext ==
    \/ ScrapeGetDriver
    \/ ScrapeEndpointUnavailable
    \/ ScrapeDriverError
    \/ ScrapeWaitTimeout
    \/ ScrapeWaitDone
    \/ ScrapeException
    \/ ScrapeBan
    \/ ScrapeCaptcha
    \/ ScrapeNoResults
    \/ ScrapeFound
    \/ ScrapePriceMissing
    \/ ScrapeBackoff
    \/ ScrapeExhausted

ScraperSpec == ScraperInit /\ [][ScraperNext]_vars

\* ------------------------------------------------------- endpoint readiness
(* _ensure_selenium_ready and _wait_for_candidate_ready of                 *)
(* allegro_scraper.py.  Candidates are named by their position in          *)
(* SELENIUM_URL_CANDIDATES (1..grid.n).  ensure holds the call in          *)
(* progress: pc is "idle" before the call, "request" inside the while loop *)
(* of _wait_for_candidate_ready, "failed" when that function has raised    *)
(* and the handler of _ensure_selenium_ready is about to run, "returned"   *)
(* or "raised" at the end of the call.  elapsed is the time since the      *)
(* deadline was computed, requests the status requests of the current      *)
(* candidate, status the outcome of the last of them, probed the           *)
(* candidates whose wait has ended, with how it ended.                     *)

(* An exception of the chain behind a failed request: whether it is a DNS  *)
(* error (NameResolutionError, socket.gaierror) and whether its .reason is *)
(* one.  A chain lists the exception and its causes/contexts in the order  *)
(* _iter_causes yields them.                                               *)
Links == [dns : BOOLEAN, reason_dns : BOOLEAN]
Chains == UNION {[1..k -> Links] : k \in 1..MaxChain}

FindDnsErrorCausesOnly(chain) ==
    \E i \in 1..Len(chain) : chain[i].dns

\* _find_dns_error(exc) is not None
FindDnsError(chain) ==
    \E i \in 1..Len(chain) : chain[i].dns \/ chain[i].reason_dns

\* The RequestException instances requests.get may raise.
RequestExceptions ==
    [kind : {"RequestException"}, connection : BOOLEAN, chain : Chains]

\* response.json() on a body that is not JSON
ValueErrorRaised == [kind |-> "ValueError", connection |-> FALSE, chain |-> <<>>]

\* time.time() after one more iteration: the request (up to 3 s) and sleep(1)
Later(d) ==
    IF ensure.elapsed + d > grid.timeout THEN grid.timeout ELSE ensure.elapsed + d

NextCandidateNoFallback(e) ==
    IF e.candidate = 0 /\ grid.n > 0
        THEN [e EXCEPT !.pc = "request", !.candidate = 1]
        ELSE [e EXCEPT !.pc = "raised",
                       !.result = [url |-> 0, named |-> 1..grid.n,
                                   last_error |-> e.last_error]]

(* The for loop of _ensure_selenium_ready after candidate e.candidate (0   *)
(* before the first): the wait of the next candidate starts, or the loop   *)
(* is over and the function raises, listing the candidates and last_error. *)
NextCandidate(e) ==
    IF e.candidate < grid.n
        THEN [e EXCEPT !.pc = "request", !.candidate = @ + 1, !.elapsed = 0,
                       !.requests = 0, !.status = "None", !.wait_error = NoError]
        ELSE [e EXCEPT !.pc = "raised",
                       !.result = [url |-> 0, named |-> 1..grid.n,
                                   last_error |-> e.last_error]]

\* _wait_for_candidate_ready raises: the wait of the candidate has ended.
WaitRaised(e, how) ==
    [e EXCEPT !.pc = "failed", !.last_error = how,
              !.probed = Append(@, [candidate |-> e.candidate, outcome |-> how])]

ReadyInit ==
    /\ PipelineIdle
    /\ ScraperIdle
    /\ ListingIdle
    /\ active = 0
    /\ ensure = NewEnsure(0)
    /\ grid \in [n : 0..MaxCandidates, timeout : 0..MaxTimeout]

\* l.186-187: an endpoint is recorded
EnsureReturnActive ==
    /\ ensure.pc = "idle"
    /\ active # 0
    /\ ensure' = [ensure EXCEPT !.pc = "returned", !.result.url = active]
    /\ UNCHANGED <<active, grid>>
    /\ UNCHANGED nonSelenium

\* l.189-191: none is recorded, the loop over the candidates starts
EnsureProbe ==
    /\ ensure.pc = "idle"
    /\ active = 0
    /\ ensure' = NextCandidate(ensure)
    /\ UNCHANGED <<active, grid>>
    /\ UNCHANGED nonSelenium

StatusReadyNotRecorded ==
    /\ ensure.pc = "request"
    /\ ensure.elapsed < grid.timeout
    /\ ensure' = [ensure EXCEPT
            !.pc = "returned", !.requests = @ + 1, !.status = "ready",
            !.probed = Append(@, [candidate |-> ensure.candidate, outcome |-> "ready"]),
            !.result.url = ensure.candidate]
    /\ UNCHANGED <<active, grid>>
    /\ UNCHANGED nonSelenium

(* l.156-163, 192-195: the status request answers 200 with ready set; the  *)
(* wait returns, the candidate is recorded as active and returned.         *)
StatusReady ==
    /\ ensure.pc = "request"
    /\ ensure.elapsed < grid.timeout
    /\ ensure' = [ensure EXCEPT
            !.pc = "returned", !.requests = @ + 1, !.status = "ready",
            !.probed = Append(@, [candidate |-> ensure.candidate, outcome |-> "ready"]),
            !.result.url = ensure.candidate]
    /\ active' = ensure.candidate
    /\ UNCHANGED grid
    /\ UNCHANGED nonSelenium

\* l.156-163, 175: another status code, or 200 without ready; sleep and loop
StatusNotReady ==
    /\ ensure.pc = "request"
    /\ ensure.elapsed < grid.timeout
    /\ \E d \in 1..2 :
        ensure' = [ensure EXCEPT !.requests = @ + 1, !.status = "not_ready",
                                 !.elapsed = Later(d)]
    /\ UNCHANGED <<active, grid>>
    /\ UNCHANGED nonSelenium

(* l.164-171, 175: requests.get raises a RequestException.  A connection   *)
(* error with a DNS error in its chain ends the wait at once; every other  *)
(* one is kept in last_error and the loop goes on.                         *)
StatusRequestException ==
    /\ ensure.pc = "request"
    /\ ensure.elapsed < grid.timeout
    /\ \E exc \in RequestExceptions, d \in 1..2 :
        LET seen == [ensure EXCEPT !.requests = @ + 1,
                                   !.status = "RequestException",
                                   !.wait_error = exc]
        IN  IF exc.connection /\ FindDnsError(exc.chain)
                THEN ensure' = WaitRaised(seen, "unresolvable")
                ELSE ensure' = [seen EXCEPT !.elapsed = Later(d)]
    /\ UNCHANGED <<active, grid>>
    /\ UNCHANGED nonSelenium

\* l.172-175: the body is not JSON; kept in last_error, sleep and loop
StatusValueError ==
    /\ ensure.pc = "request"
    /\ ensure.elapsed < grid.timeout
    /\ \E d \in 1..2 :
        ensure' = [ensure EXCEPT !.requests = @ + 1, !.status = "ValueError",
                                 !.wait_error = ValueErrorRaised,
                                 !.elapsed = Later(d)]
    /\ UNCHANGED <<active, grid>>
    /\ UNCHANGED nonSelenium

(* Any other exception of the request (l.155-173 catch none) leaves        *)
(* _wait_for_candidate_ready and is caught at l.200.                       *)
StatusUnexpected ==
    /\ ensure.pc = "request"
    /\ ensure.elapsed < grid.timeout
    /\ ensure' = WaitRaised([ensure EXCEPT !.requests = @ + 1,
                                           !.status = "Exception"], "unexpected")
    /\ UNCHANGED <<active, grid>>
    /\ UNCHANGED nonSelenium

\* l.154, 177-179: the deadline has passed
WaitDeadline ==
    /\ ensure.pc = "request"
    /\ ensure.elapsed >= grid.timeout
    /\ ensure' = WaitRaised(ensure, "not_ready")
    /\ UNCHANGED <<active, grid>>
    /\ UNCHANGED nonSelenium

\* l.197-208: the handler keeps the error; next candidate, or raise
EnsureCandidateFailed ==
    /\ ensure.pc = "failed"
    /\ ensure' = NextCandidate(ensure)
    /\ UNCHANGED <<active, grid>>
    /\ UNCHANGED nonSelenium

\* The process calls _ensure_selenium_ready again.
EnsureAgain ==
    /\ ensure.pc \in {"returned", "raised"}
    /\ ensure.calls < MaxCalls
    /\ ensure' = NewEnsure(ensure.calls + 1)
    /\ UNCHANGED <<active, grid>>
    /\ UNCHANGED nonSelenium

ReadyNext ==
    \/ EnsureReturnActive
    \/ EnsureProbe
    \/ StatusReady
    \/ StatusNotReady
    \/ StatusRequestException
    \/ StatusValueError
    \/ StatusUnexpected
    \/ WaitDeadline
    \/ EnsureCandidateFailed
    \/ EnsureAgain

ReadySpec == ReadyInit /\ [][ReadyNext]_vars

\* ------------------------------------------------------------ list_products
(* GET /api/imports/{job_id}/products of main.py, under ReportSpec.  Init  *)
(* draws what the request reads: whether the job exists, its multiplier,   *)
(* whether it owns a product (one row is enough: the rows are analysed     *)
(* independently), the product's status and purchase price and the lowest  *)
(* price of the cache row of its EAN (NoneVal: no row, or a null price).   *)
(* Prices are whole units; margins and multipliers are in hundredths.      *)

\* config.PROFIT_MULTIPLIER (1.5), in hundredths
PROFIT_MULTIPLIER == 150

\* Mapped columns of ProductInput; reading another attribute of a loaded
\* row raises AttributeError.
PRODUCT_INPUT_COLUMNS ==
    {"id", "import_job_id", "ean", "name", "purchase_price", "currency",
     "normalized_price", "status", "created_at"}

\* Values of import_jobs.multiplier, in hundredths
Multipliers == {125, 150, 200}

\* round(a / b, 2) in hundredths: nearest, ties to even
Round2(a, b) ==
    LET q == (100 * a) \div b
        r == (100 * a) % b
    IN  IF 2 * r > b \/ (2 * r = b /\ q % 2 = 1) THEN q + 1 ELSE q

\* l.126
EffectiveMultiplier(m) ==
    IF m # NoneVal /\ m # 0 THEN m ELSE PROFIT_MULTIPLIER

(* l.128-152: profit_margin and recommendation of one product.  The        *)
(* strings are the source's, without diacritics.                           *)
Analysis(status, purchase_price, lowest_price, multiplier) ==
    IF status = "done" /\ lowest_price # NoneVal /\ purchase_price # NoneVal
    THEN IF purchase_price > 0
         THEN LET profit_margin == Round2(lowest_price, purchase_price)
              IN  [profit_margin |-> profit_margin,
                   recommendation |->
                       IF profit_margin >= multiplier
                           THEN "oplacalny" ELSE "nieoplacalny"]
         ELSE [profit_margin |-> NoneVal, recommendation |-> "oplacalny"]
    ELSE [profit_margin |-> NoneVal,
          recommendation |->
              CASE status = "not_found" -> "brak na Allegro"
                [] status = "error" -> "blad pobierania"
                [] status \in {"pending", "queued", "processing"} -> "w trakcie..."
                [] OTHER -> "brak danych"]

\* l.128-131: the lowest price list_products reads for product p
ListedPrice(p) ==
    IF cache[Ean(p)] = NoRow THEN NoneVal ELSE cache[Ean(p)].lowest_price

ReportInit ==
    /\ PipelineIdle
    /\ ScraperIdle
    /\ SeleniumIdle
    /\ \E found \in BOOLEAN, rows \in 0..1,
          status \in ACTIVE_STATUSES \cup TERMINAL_STATUSES,
          purchase_price \in 0..MaxPrice,
          lowest_price \in {NoneVal} \cup 0..MaxPrice,
          multiplier \in Multipliers :
        listing = [NoListing EXCEPT
                     !.job_found = found, !.rows = rows, !.status = status,
                     !.purchase_price = purchase_price,
                     !.lowest_price = lowest_price, !.multiplier = multiplier]

(* l.106-170: 404 without the job; otherwise one ProductAnalysis per       *)
(* product, built from the row's attributes, p.notes among them (l.165).   *)
ListProducts ==
    /\ listing.pc = "idle"
    /\ listing' =
        IF ~listing.job_found
            THEN [listing EXCEPT !.pc = "raised", !.error = "HTTPException"]
        ELSE IF listing.rows = 0
            THEN [listing EXCEPT !.pc = "returned"]
        ELSE IF "notes" \notin PRODUCT_INPUT_COLUMNS
            THEN [listing EXCEPT !.pc = "raised", !.error = "AttributeError"]
        ELSE [listing EXCEPT
                !.pc = "returned",
                !.response = <<Analysis(listing.status, listing.purchase_price,
                                        listing.lowest_price,
                                        EffectiveMultiplier(listing.multiplier))>>]
    /\ UNCHANGED nonListing

ReportNext == ListProducts

ReportSpec == ReportInit /\ [][ReportNext]_vars

\* --------------------------------------------------------------- job_status
\* GET /api/imports/{job_id}/status: the job's status and
\* getattr(job, 'notes', None), read in a session of the API process.
job_status == [status |-> job, notes |-> jobNotes]

\* ================================================================= claims
Terminal(p) == products[p].status \in TERMINAL_STATUSES
JobTerminal == job \in JOB_TERMINAL

(* A step of the code of product p's lookup task: its position changes,   *)
(* and not by a delivery (first or repeated) of its message.               *)
Ran(p) ==
    /\ tasks[p].pc # "none"
    /\ tasks'[p].pc # tasks[p].pc
    /\ tasks'[p].pc # "queued"

Rank(st) ==
    CASE st = "pending" -> 0
      [] st = "queued" -> 1
      [] st = "processing" -> 2
      [] OTHER -> 3

Forward(a, b) == a = b \/ Rank(a) < Rank(b)

(* C1: a product's state only moves forward along pending -> queued ->     *)
(* processing -> {done, not_found, error}: no step takes a terminal state  *)
(* back to processing, turns one terminal state into another, or takes     *)
(* processing back to queued or pending.                                   *)
C1_StateOnlyMovesForward ==
    [][\A p \in Ids : Forward(products[p].status, products'[p].status)]_vars

(* C2: an execution of the lookup task that starts on a product already    *)
(* in a terminal state changes neither the product, nor the cache entry   *)
(* of its identifier, nor the job's state, and does not call the lookup    *)
(* client.                                                                 *)
C2_RerunOnTerminalIsNoOp ==
    [][\A p \in Ids :
          (Ran(p) /\ (tasks[p].rerun \/ (tasks[p].pc = "queued" /\ Terminal(p))))
             => /\ products'[p] = products[p]
                /\ cache'[Ean(p)] = cache[Ean(p)]
                /\ job' = job
                /\ tasks'[p].calls = 0]_vars

(* C3: whenever the job's state is done or error, every product of the    *)
(* job is in a terminal state.                                             *)
C3_TerminalJobHasTerminalProducts ==
    JobTerminal => \A p \in Ids : Terminal(p)

(* C4: once the job's state is done or error, no step sets it back to a    *)
(* non-terminal state.                                                     *)
C4_JobNeverLeavesTerminal ==
    [][JobTerminal => JobTerminal']_vars

(* C5: once the job is done or error, no step of a call of                 *)
(* finalize_job_if_complete changes the job's state.                       *)
InFinalize(p) == tasks[p].pc \in {"fin", "finw", "hfin", "hfinw"}

C5_FinalizeKeepsTerminalJob ==
    [][\A p \in Ids : (Ran(p) /\ InFinalize(p) /\ JobTerminal) => job' = job]_vars

(* C6: no finalization is lost.  With a store that does not fail and      *)
(* every scheduled lookup task run to completion, once the parse step has  *)
(* scheduled a lookup task the job eventually is done or error, and once   *)
(* all products are terminal the job eventually is done or error.          *)
AllTerminal == Len(products) > 0 /\ \A p \in Ids : Terminal(p)
SomeScheduled == \E p \in Ids : tasks[p].pc # "none"

C6_NoFinalizationLost ==
    /\ SomeScheduled ~> JobTerminal
    /\ AllTerminal ~> JobTerminal

(* C7: when an execution of the lookup task has returned or raised, its    *)
(* product is in a terminal state (done, not_found or error).              *)
C7_EndedTaskLeavesProductTerminal ==
    \A p \in Ids : tasks[p].pc = "ended" => Terminal(p)

(* C8: when the last real lookup for an identifier ended in a failure, a   *)
(* later lookup task for that identifier does not resolve its product      *)
(* from the cache.                                                         *)
C8_FailedLookupNotServedFromCache ==
    [][\A p \in Ids :
          (Ran(p) /\ tasks[p].pc = "queued" /\ tasks'[p].path = "hit")
             => ~lastFailed[Ean(p)]]_vars

(* C9: a cache entry whose age is at least the TTL is not used: the task   *)
(* takes the miss path (product processing, no state from the cache), and  *)
(* the miss path calls the lookup client once and, when its commit         *)
(* succeeds, leaves an entry fetched now.                                  *)
Stale(row, now) == row # NoRow /\ now - row.fetched_at >= CACHE_TTL_DAYS

C9_StaleEntryIsAMiss ==
    [][\A p \in Ids :
          /\ (Ran(p) /\ tasks[p].pc = "queued" /\ Stale(cache[Ean(p)], clock))
                => /\ tasks'[p].pc = "lookup"
                   /\ tasks'[p].path = "miss"
                   /\ products'[p].status = "processing"
          /\ (Ran(p) /\ tasks[p].pc = "lookup")
                => /\ tasks'[p].calls = 1
                   /\ tasks'[p].pc = "fin" => cache'[Ean(p)].fetched_at = clock]_vars

C9_Witness ==
    \E p \in Ids :
        /\ tasks[p].pc = "lookup"
        /\ tasks[p].sawCache
        /\ cache[Ean(p)] # NoRow
        /\ cache[Ean(p)].source = "antibot_exe"
        /\ clock - cache[Ean(p)].fetched_at = CACHE_TTL_DAYS

(* C10: on a cache hit the product becomes not_found when the cached row   *)
(* is flagged not_found and done otherwise, and no step of that execution  *)
(* calls the lookup client or changes a cache row.                         *)
Reusable(row, now) ==
    /\ row # NoRow
    /\ now - row.fetched_at < CACHE_TTL_DAYS
    /\ row.source \notin INVALID_CACHE_SOURCES

C10_CacheHitFrame ==
    [][\A p \in Ids :
          /\ (Ran(p) /\ tasks[p].pc = "queued" /\ Reusable(cache[Ean(p)], clock))
                => /\ tasks'[p].path = "hit"
                   /\ products'[p].status =
                         IF cache[Ean(p)].not_found THEN "not_found" ELSE "done"
          /\ (Ran(p) /\ (tasks[p].path = "hit" \/ tasks'[p].path = "hit"))
                => /\ cache' = cache
                   /\ tasks'[p].calls = 0]_vars

C10_Witness ==
    \E p \in Ids :
        /\ tasks[p].path = "hit"
        /\ products[p].status = "not_found"
        /\ cache[Ean(p)].not_found
        /\ cache[Ean(p)].fetched_at < StartDay

(* C11: on a cache miss, and unless the store itself fails, the step that  *)
(* follows the processing mark calls the lookup client exactly once,       *)
(* writes the result as the identifier's cache entry, and sets the product *)
(* to done for a found result, not_found for a not_found result and error  *)
(* for a result that reports an error, the error taking precedence.        *)
Outcome(result) ==
    CASE result.error -> "error"
      [] ~result.error /\ result.not_found -> "not_found"
      [] OTHER -> "done"

C11_MissLooksUpOnceAndMaps ==
    [][\A p \in Ids :
          (Ran(p) /\ tasks[p].pc = "lookup" /\ failures' = failures)
             => /\ tasks'[p].calls = 1
                /\ \E result \in fetch_with_antibot :
                      /\ cache'[Ean(p)].source = result.source
                      /\ cache'[Ean(p)].lowest_price = result.lowest_price
                      /\ cache'[Ean(p)].not_found = result.not_found
                      /\ cache'[Ean(p)].fetched_at = clock
                      /\ products'[p].status = Outcome(result)]_vars

(* C12: when a lookup task that found no cache entry for its identifier    *)
(* comes to write its result after another task has written an entry for   *)
(* the same identifier, its write goes through: the task is not sent to    *)
(* its failure handler and its product gets the state of its own outcome.  *)
InsertRace(p) ==
    /\ tasks[p].pc = "lookup"
    /\ ~tasks[p].sawCache
    /\ cache[Ean(p)] # NoRow

C12_ConcurrentWritesSerialized ==
    [][\A p \in Ids :
          (Ran(p) /\ InsertRace(p) /\ failures' = failures)
             => /\ tasks'[p].pc = "fin"
                /\ cache'[Ean(p)].fetched_at = clock]_vars

(* C13: one execution of parse_import_file sets the job to processing,     *)
(* commits every valid row as a queued product before any lookup task is   *)
(* enqueued, and enqueues one task per product: each enqueue step takes    *)
(* one product of this execution that is committed as queued and has no    *)
(* task yet, and when the execution returns every product has its task.    *)
OwnIds == (parse.base + 1)..(parse.base + Len(file))

C13_OneTaskPerQueuedProduct ==
    [][/\ (parse.pc = "queued" /\ parse'.pc = "rows") => job' = "processing"
       /\ (parse.pc = "rows" /\ parse'.pc = "enqueue")
             => /\ Len(products') = Len(products) + Len(file)
                /\ \A k \in 1..Len(file) :
                      /\ products'[Len(products) + k] =
                            [ean |-> file[k], status |-> "queued"]
                      /\ tasks'[Len(products) + k].pc = "none"
       /\ (parse.pc = "enqueue" /\ tasks' # tasks /\ parse' # parse)
             => \E p \in OwnIds :
                   /\ tasks[p].pc = "none"
                   /\ tasks'[p].pc = "queued"
                   /\ products[p].status = "queued"
                   /\ \A q \in Ids \ {p} : tasks'[q] = tasks[q]
       /\ (parse.pc = "enqueue" /\ parse'.pc = "ended" /\ tasks' # tasks)
             => \A p \in OwnIds : tasks'[p].pc # "none"]_vars

C13_Witness ==
    /\ parse.pc = "ended"
    /\ Len(file) = 2
    /\ Len(products) = 2
    /\ job = "processing"
    /\ \A p \in Ids : tasks[p].pc # "none"

(* C14: when enqueueing a lookup task fails after the products were        *)
(* committed as queued, the task ends with the job persisted in state      *)
(* error and with a non-empty note.                                        *)
C14_EnqueueFailureMarksJobError ==
    [][(parse.pc = "enqueue" /\ parse'.pc = "ended" /\ tasks' = tasks)
          => (job' = "error" /\ jobNotes' # NoNote)]_vars

(* C15: when the file has no valid row (or lacks a required column) the    *)
(* task ends with the job in state error with a note, with no product      *)
(* persisted for the job and no lookup task enqueued.                      *)
C15_NoValidRowsEndsInError ==
    [][(parse.pc = "rows" /\ parse'.pc = "ended")
          => /\ job' = "error"
             /\ jobNotes' # NoNote
             /\ products' = <<>>
             /\ tasks' = <<>>]_vars

(* C16: a call of finalize_job_if_complete that counts an active product   *)
(* changes nothing; a call that counts none sets the job to error when the *)
(* job has no product or only products in error and to done otherwise, and *)
(* leaves a note that records the error / not-found counts when there are  *)
(* any and no note when there are none.                                    *)
NoneActive == \A p \in Ids : products[p].status \notin ACTIVE_STATUSES
AllInError == \A p \in Ids : products[p].status = "error"
SingleCallStatus == IF Len(products) = 0 \/ AllInError THEN "error" ELSE "done"
SingleCallHasNote ==
    \/ Len(products) = 0
    \/ \E p \in Ids : products[p].status \in {"error", "not_found"}

C16_FinalizeOutcome ==
    [][\A p \in Ids :
          /\ (Ran(p) /\ tasks[p].pc \in {"fin", "hfin"} /\ failures' = failures)
                => /\ job' = job
                   /\ jobNotes' = jobNotes
                   /\ products' = products
                   /\ ~NoneActive => tasks'[p].pc = "ended"
          /\ (Ran(p) /\ tasks[p].pc \in {"finw", "hfinw"} /\ failures' = failures)
                => /\ job' = SingleCallStatus
                   /\ (jobNotes' # NoNote) = SingleCallHasNote]_vars

(* C17: finalize calls of lookup tasks that complete concurrently (no      *)
(* worker death, no store failure) agree: a call that finds the job done   *)
(* or error leaves it as it is, a call that changes the job sets it to     *)
(* the state a single call computes from the products, and when every      *)
(* task has ended the job is in the state a single call computes from the  *)
(* final product states.                                                   *)
Quiescent ==
    /\ Len(products) > 0
    /\ parse.pc = "ended"
    /\ \A p \in Ids : tasks[p].pc = "ended"

C17_ConcurrentFinalizeAgree ==
    [][/\ \A p \in Ids :
             (Ran(p) /\ InFinalize(p) /\ failures' = 0)
                => /\ JobTerminal => job' = job
                   /\ job' # job => job' = SingleCallStatus
       /\ (failures' = 0 /\ Quiescent') => job' = SingleCallStatus']_vars

C17_Witness ==
    /\ failures = 0
    /\ Len(products) = 2
    /\ tasks[1].pc = "finw"
    /\ tasks[2].pc = "finw"
    /\ products[1].status # products[2].status

(* C18: the lookup client never makes more than MAX_ATTEMPTS attempts in   *)
(* one call; as long as every attempt has ended in a transient failure     *)
(* (timeout, exception, no price) it starts another one until it has made  *)
(* MAX_ATTEMPTS, and then it returns a failure result (source failed, with *)
(* an error), which the lookup task maps to the product state error.       *)
C18_RetryBudget ==
    [][/\ attempt' <= MAX_ATTEMPTS
       /\ (scrape = "next" /\ attempt < MAX_ATTEMPTS) => attempt' = attempt + 1
       /\ (scrape = "next" /\ attempt = MAX_ATTEMPTS)
             => /\ scrape' = "returned"
                /\ attempt' = attempt
                /\ response'.source = "failed"
                /\ response'.error
                /\ NewStatus(response') = "error"
       /\ (scrape # "returned" /\ scrape' = "returned" /\ response'.source = "failed"
             /\ last_error' # "SeleniumEndpointUnavailable")
             => attempt' = MAX_ATTEMPTS]_vars

C18_Witness ==
    /\ scrape = "returned"
    /\ attempt = MAX_ATTEMPTS
    /\ response.source = "failed"
    /\ response.error
    /\ last_error = "RuntimeError"

(* C19: the attempt whose classification finds a blocked or a captcha      *)
(* signature is the last attempt of the call: unless a statement raises,   *)
(* the call returns at once with source ban_detected / captcha_detected    *)
(* and no further attempt is started.                                      *)
Raised == scrape' = "backoff" /\ last_error' \in {"TimeoutException", "Exception"}

C19_BlockedCaptchaNotRetried ==
    [][(scrape = "classify" /\ (page_source.ban \/ page_source.captcha) /\ ~Raised)
          => /\ scrape' = "returned"
             /\ attempt' = attempt
             /\ response'.source =
                   IF page_source.ban THEN "ban_detected" ELSE "captcha_detected"]_vars

C19_Witness ==
    /\ scrape = "returned"
    /\ response.source = "captcha_detected"
    /\ attempt = 2
    /\ page_source.captcha

(* C20: an attempt that loads a page with a blocked signature ends the     *)
(* call with source ban_detected and sends the ban alert, whether or not   *)
(* the page also shows offers or a no-results message.                     *)
C20_BlockedSignatureReturnsBlocked ==
    [][(scrape \in {"wait", "classify"} /\ page_source.ban
          /\ scrape' \notin {"wait", "classify"} /\ ~Raised)
          => /\ scrape' = "returned"
             /\ response'.source = "ban_detected"
             /\ alerts' = Append(alerts, "allegro_ban_detected")]_vars

(* C21: a lookup call that ends on a blocked page has emitted exactly one  *)
(* alert, and the lookup task's status mapping puts the product of that    *)
(* result in state error.                                                  *)
C21_BlockedProductEndsInError ==
    (scrape = "returned" /\ response.source = "ban_detected")
        => /\ alerts = <<"allegro_ban_detected">>
           /\ NewStatus(response) = "error"

(* C22: every retry of the lookup client comes after one backoff delay per *)
(* attempt made so far, the last of them at least the base delay doubled   *)
(* for every earlier attempt, and uses another user agent than the attempt *)
(* before it; no delay follows the final attempt.                          *)
C22_RetryPrecededByBackoff ==
    [][/\ (attempt >= 1 /\ attempt' = attempt + 1)
             => /\ Len(sleeps) = attempt
                /\ sleeps[attempt] >= BASE_BACKOFF_SECONDS * 2^(attempt - 1)
                /\ UserAgentIndex(attempt') # UserAgentIndex(attempt)
       /\ (attempt = MAX_ATTEMPTS) => sleeps' = sleeps]_vars

(* C23: when get_driver raises SeleniumEndpointUnavailable the call ends   *)
(* in that attempt: it returns a result with source failed and an error,   *)
(* without a backoff delay, and starts no further attempt.                 *)
C23_InfrastructureFailureBreaksLoop ==
    [][/\ (scrape # "returned" /\ last_error' = "SeleniumEndpointUnavailable")
             => /\ scrape' = "returned"
                /\ attempt' = attempt + 1
                /\ sleeps' = sleeps
                /\ response'.source = "failed"
                /\ response'.error
       /\ (last_error = "SeleniumEndpointUnavailable") => attempt' = attempt]_vars

C23_Witness ==
    /\ scrape = "returned"
    /\ last_error = "SeleniumEndpointUnavailable"
    /\ attempt = 1
    /\ response.source = "failed"
    /\ alerts = <<"allegro_scrape_failed">>

Upto(n) == [i \in 1..n |-> i]
ProbedCandidates(e) == [i \in 1..Len(e.probed) |-> e.probed[i].candidate]
NoneReadyBefore(e, c) ==
    \A i \in 1..Len(e.probed) :
        e.probed[i].candidate < c => e.probed[i].outcome # "ready"

(* C24: _ensure_selenium_ready probes the candidates in their configured   *)
(* order and returns the first whose readiness check succeeds, every       *)
(* earlier one having failed; it records that endpoint as the active one,  *)
(* and a later call returns the recorded endpoint without probing.         *)
C24_FirstReadyCandidateIsRecorded ==
    [][/\ (ensure.pc = "request" /\ ensure'.pc = "returned")
            => /\ ensure'.result.url = ensure.candidate
               /\ ProbedCandidates(ensure') = Upto(ensure.candidate)
               /\ NoneReadyBefore(ensure', ensure.candidate)
               /\ ensure'.probed[ensure.candidate].outcome = "ready"
               /\ active' = ensure.candidate
       /\ (ensure.pc = "idle" /\ active # 0)
            => /\ ensure'.pc = "returned"
               /\ ensure'.result.url = active
               /\ ensure'.probed = <<>>
               /\ ensure'.requests = 0
               /\ active' = active]_vars

\* The second candidate was selected after the first failed, and a later
\* call has returned it without a request.
C24_Witness ==
    /\ ensure.calls = 1
    /\ ensure.pc = "returned"
    /\ ensure.result.url = 2
    /\ active = 2
    /\ ensure.probed = <<>>

(* C25: when the readiness check fails for every candidate,                *)
(* _ensure_selenium_ready raises naming the candidates tried and the last  *)
(* error, and the active endpoint stays unset, so that a later call probes *)
(* the candidates again from the first.                                    *)
C25_AllCandidatesFailRaises ==
    [][/\ (ensure.pc # "raised" /\ ensure'.pc = "raised")
            => /\ ProbedCandidates(ensure') = Upto(grid.n)
               /\ \A i \in 1..grid.n : ensure'.probed[i].outcome # "ready"
               /\ ensure'.result.named = 1..grid.n
               /\ grid.n > 0 =>
                    ensure'.result.last_error = ensure'.probed[grid.n].outcome
               /\ active' = 0
       /\ (ensure.pc = "raised" /\ ensure'.pc = "idle") => active' = 0
       /\ (ensure.pc = "idle" /\ active = 0 /\ grid.n > 0)
            => /\ ensure'.pc = "request"
               /\ ensure'.candidate = 1]_vars

\* After a call that raised with two candidates, the next call is probing
\* the first candidate again.
C25_Witness ==
    /\ grid.n = 2
    /\ ensure.calls = 1
    /\ ensure.pc = "request"
    /\ ensure.candidate = 1
    /\ active = 0

\* A DNS error is the exception, a cause or context of it, or the .reason
\* of one of these.
DnsInChain(exc) ==
    \E i \in 1..Len(exc.chain) : exc.chain[i].dns \/ exc.chain[i].reason_dns

Unresolvable(e) ==
    /\ e.status = "RequestException"
    /\ e.wait_error.connection
    /\ DnsInChain(e.wait_error)

(* C26: a status request that fails with a connection error whose chain    *)
(* of causes, contexts and reasons holds a DNS error ends the wait on that *)
(* request with SeleniumEndpointUnavailable; any other failed request is   *)
(* followed by another iteration of the same wait, and the wait raises     *)
(* without a request only once the deadline has passed.                    *)
C26_DnsErrorNotRetried ==
    [][(ensure.pc = "request")
        => /\ (ensure.elapsed < grid.timeout)
                => ensure'.requests = ensure.requests + 1
           /\ (ensure'.requests = ensure.requests + 1 /\ Unresolvable(ensure'))
                => /\ ensure'.pc = "failed"
                   /\ ensure'.last_error = "unresolvable"
           /\ (/\ ensure'.requests = ensure.requests + 1
               /\ ensure'.status \in {"RequestException", "ValueError", "not_ready"}
               /\ ~Unresolvable(ensure'))
                => /\ ensure'.pc = "request"
                   /\ ensure'.candidate = ensure.candidate
                   /\ ensure'.elapsed > ensure.elapsed
           /\ (ensure.elapsed >= grid.timeout)
                => /\ ensure'.pc = "failed"
                   /\ ensure'.requests = ensure.requests
                   /\ ensure'.last_error = "not_ready"]_vars

\* The first request failed with a connection error whose DNS error is the
\* reason of a chained cause: the wait raised after that one request.
C26_Witness ==
    /\ ensure.pc = "failed"
    /\ ensure.requests = 1
    /\ ensure.wait_error.connection
    /\ Len(ensure.wait_error.chain) = 2
    /\ \A i \in 1..2 : ~ensure.wait_error.chain[i].dns
    /\ ensure.wait_error.chain[2].reason_dns
    /\ ensure.last_error = "unresolvable"

\* A wait that retried failed requests up to the deadline and then raised.
C26_WitnessDeadline ==
    /\ ensure.pc = "failed"
    /\ ensure.requests = 2
    /\ ensure.status = "RequestException"
    /\ ensure.last_error = "not_ready"

\* What the claim expects of the row of the listed product.
ExpectedRecommendation(r) ==
    /\ (listing.status = "done" /\ listing.lowest_price # NoneVal
            /\ listing.purchase_price > 0)
         => /\ r.profit_margin =
                    Round2(listing.lowest_price, listing.purchase_price)
            /\ r.recommendation =
                    IF r.profit_margin >= listing.multiplier
                        THEN "oplacalny" ELSE "nieoplacalny"
    /\ listing.status = "not_found" => r.recommendation = "brak na Allegro"
    /\ listing.status = "error" => r.recommendation = "blad pobierania"
    /\ listing.status \in ACTIVE_STATUSES => r.recommendation = "w trakcie..."

(* C27: list_products answers with a row per product whose recommendation  *)
(* follows from the product's state, the prices and the job's multiplier:  *)
(* for a done product with a lowest price and a positive purchase price,   *)
(* the margin is round(lowest_price / purchase_price, 2) and the product   *)
(* is profitable iff the margin reaches the multiplier; not_found, error   *)
(* and in-progress products get their fixed texts.                         *)
C27_RecommendationDerived ==
    (listing.pc # "idle" /\ listing.job_found /\ listing.rows = 1)
        => /\ listing.pc = "returned"
           /\ Len(listing.response) = 1
           /\ ExpectedRecommendation(listing.response[1])

\* What the call returns after a notification of the given kind.
OutcomeAfterAlert(kind, error) ==
    CASE kind = "allegro_ban_detected" -> BanResponse
      [] kind = "allegro_captcha_detected" -> CaptchaResponse
      [] OTHER -> FailureResponse(error)

SomeFailedProduct ==
    \E p \in Ids : products[p].status \in {"error", "not_found"}

(* C29: whenever the job is in state error, or done with some product in   *)
(* error or not_found, the status read by the API carries the notes the    *)
(* task wrote with that state: a non-empty string.                         *)
C29_TerminalJobExposesNotes ==
    (job_status.status = "error" \/ (job_status.status = "done" /\ SomeFailedProduct))
        => job_status.notes # NoNote

RaisedTask == \E p \in Ids : tasks[p].pc = "ended" /\ tasks[p].path = "raised"

(* C30: a failure inside job finalization is not lost: when a lookup task  *)
(* has ended by raising, and every task has ended with every product       *)
(* terminal, the job has been finalized (a task that raised out of         *)
(* finalization has been run again and has finalized the job).             *)
C30_FinalizeFailureIsRetried ==
    (Quiescent /\ AllTerminal /\ RaisedTask) => JobTerminal

(* C31: a lookup task owns one product: a step of the task of product p    *)
(* (cache hit, lookup, failure handler, finalization) changes no other     *)
(* product and does not move the task of any other product.                *)
C31_TaskOwnsOneProduct ==
    [][\A p \in Ids : Ran(p) =>
          \A q \in Ids \ {p} :
              /\ products'[q] = products[q]
              /\ tasks'[q] = tasks[q]]_vars

\* Two products whose tasks have ended, one in error and one done.
C31_Witness ==
    \E p, q \in Ids :
        /\ p # q
        /\ tasks[p].pc = "ended" /\ tasks[q].pc = "ended"
        /\ products[p].status = "error"
        /\ products[q].status = "done"

(* C32: the cache holds at most one row per identifier in every reachable  *)
(* state, whatever the interleaving of the lookup tasks that read and      *)
(* write the same identifier; the row the tasks read is there exactly when *)
(* one was written.                                                        *)
C32_OneCacheEntryPerIdentifier ==
    \A e \in EANS :
        /\ entries[e] <= 1
        /\ entries[e] = 0 <=> cache[e] = NoRow

\* Two tasks of one identifier both saw no row; one has inserted its row,
\* the other is about to write.
C32_Witness ==
    \E p \in Ids :
        /\ InsertRace(p)
        /\ entries[Ean(p)] = 1

(* C33: a loaded page is classified with the precedence blocked > captcha  *)
(* > no listings > parseable price > none.  Unless a statement raises, the *)
(* step after the wait returns ban_detected for a blocked page, else       *)
(* captcha_detected for a captcha page, else not_found for a no-listings   *)
(* page (no retry, no backoff), else the price when one can be parsed;     *)
(* with none of these the attempt fails with the error kept, nothing is    *)
(* returned and the loop goes on to the backoff.                           *)
C33_ClassificationPrecedence ==
    [][(scrape = "classify" /\ ~Raised)
        => LET pg == page_source
               blocked == pg.ban \/ pg.captcha
           IN  /\ pg.ban => response'.source = "ban_detected"
               /\ (~pg.ban /\ pg.captcha) => response'.source = "captcha_detected"
               /\ (~blocked /\ pg.no_results)
                    => /\ scrape' = "returned"
                       /\ response'.not_found
                       /\ response'.lowest_price = NoneVal
                       /\ alerts' = alerts
               /\ (~blocked /\ ~pg.no_results /\ pg.price)
                    => /\ scrape' = "returned"
                       /\ ~response'.not_found
                       /\ response'.lowest_price # NoneVal
                       /\ response'.source = "selenium_rotating"
               /\ (~blocked /\ ~pg.no_results /\ ~pg.price)
                    => /\ scrape' = "backoff"
                       /\ last_error' = "RuntimeError"
                       /\ response' = response
               /\ attempt' = attempt
               /\ sleeps' = sleeps
               /\ ~driver']_vars

\* A page with the no-listings text and a price was returned as not_found
\* on the first attempt.
C33_Witness ==
    /\ scrape = "returned"
    /\ attempt = 1
    /\ response = NoResultsResponse
    /\ page_source.no_results /\ page_source.price
    /\ ~page_source.ban /\ ~page_source.captcha
    /\ sleeps = <<>>

(* C34: a product's operations are sequential, queued -> processing ->     *)
(* terminal: every step that gives a product a terminal state (done,       *)
(* not_found or error) it did not have finds the product in state          *)
(* processing, a result served from the cache included.                    *)
C34_TerminalFollowsProcessing ==
    [][\A p \in Ids :
          (/\ products'[p].status \in TERMINAL_STATUSES
           /\ products'[p].status # products[p].status)
             => products[p].status = "processing"]_vars

(* C35: once a lookup task has committed its product's terminal state, a   *)
(* failure of the call of finalize_job_if_complete that follows leaves the *)
(* product as committed.                                                   *)
C35_FinalizeFailureKeepsProduct ==
    [][\A p \in Ids :
          (Ran(p) /\ tasks[p].pc \in {"fin", "finw"} /\ failures' = failures + 1)
             => products'[p] = products[p]]_vars

\* What a task that never found its row must leave alone.
StoreUntouched ==
    /\ products' = products
    /\ cache' = cache
    /\ entries' = entries
    /\ job' = job
    /\ jobNotes' = jobNotes

(* C36: a lookup task whose product row is not visible queries for it at   *)
(* most three times; a query that finds no row changes nothing, a query    *)
(* that finds the row lets the task go on with its first step, and after   *)
(* the third query without a row the task returns normally: it has not     *)
(* raised, has not called the lookup client and has changed no product, no *)
(* cache entry and not the job.                                            *)
C36_MissingRowGivesUpQuietly ==
    [][(tasks[1].pc = "reading" /\ <<tasks[1], rowReads>>' # <<tasks[1], rowReads>>)
        => /\ rowReads' <= ROW_READS
           /\ (rowReads < ROW_READS /\ products = <<>>)
                => /\ rowReads' = rowReads + 1
                   /\ tasks' = tasks
                   /\ StoreUntouched
           /\ (rowReads < ROW_READS /\ products # <<>>)
                => /\ tasks'[1].pc = "queued"
                   /\ StoreUntouched
           /\ (rowReads = ROW_READS)
                => /\ tasks'[1].pc = "ended"
                   /\ tasks'[1].path = "absent"
                   /\ tasks'[1].calls = 0
                   /\ StoreUntouched]_vars

\* The task gave up after three queries; the job is still processing.
C36_Witness ==
    /\ tasks[1].pc = "ended"
    /\ tasks[1].path = "absent"
    /\ rowReads = ROW_READS
    /\ job = "processing"

\* The row appeared on the third query and the task finalized the job.
C36_WitnessFound ==
    /\ tasks[1].pc = "ended"
    /\ tasks[1].path = "returned"
    /\ tasks[1].calls = 1
    /\ rowReads = 2
    /\ job \in JOB_TERMINAL

(* C37: every browser session an attempt creates is quit on every way out  *)
(* of the attempt: at most one session is live at any time, and none is    *)
(* live between attempts or once the call has returned.                    *)
C37_DriverQuitOnEveryPath ==
    /\ sessions <= 1
    /\ scrape \notin {"wait", "classify"} => sessions = 0

(* C38: the status update start_import makes after enqueueing the parse    *)
(* task moves the job from pending or queued to queued and nothing else:   *)
(* whatever the worker has committed meanwhile (processing, done, error)   *)
(* is left as it is.                                                       *)
C38_MarkQueuedNeverOverwrites ==
    [][(api = "mark" /\ api' # "mark")
          => job' = IF job \in {"pending", "queued"} THEN "queued" ELSE job]_vars

\* The whole job ran before the request made its update; done was kept.
C38_Witness ==
    /\ api = "kept"
    /\ job = "done"

(* C39: for every product in state done, what list_products derives from   *)
(* the store is a lowest price that is not null and a recommendation of    *)
(* profitable or unprofitable, whatever the purchase price and whatever    *)
(* other lookups of the same identifier have written to the cache row.     *)
C39_DoneProductHasPrice ==
    \A p \in Ids :
        products[p].status = "done"
            => /\ ListedPrice(p) # NoneVal
               /\ \A purchase_price \in 0..MaxPrice :
                     Analysis("done", purchase_price, ListedPrice(p),
                              PROFIT_MULTIPLIER).recommendation
                        \in {"oplacalny", "nieoplacalny"}

(* C40: an execution of parse_import_file that starts when the job's       *)
(* products are already persisted adds no second set: the job never owns   *)
(* more products than the file has valid rows, and no lookup task exists   *)
(* beyond one per row.                                                     *)
C40_ReexecutionAddsNoProducts ==
    /\ Len(products) <= Len(file)
    /\ Cardinality({p \in Ids : tasks[p].pc # "none"}) <= Len(file)
====
